---- MODULE Spec2Model ----
(***************************************************************************)
(* Execution-and-analysis pipeline of the multi-agent game tester:         *)
(*   OrchestratorAgent.execute_tests  (bounded fan-out over ExecutorAgent) *)
(*   ExecutorAgent.run / capture_artifacts                                 *)
(*   AnalyzerAgent.analyze_and_write_report / generate_report              *)
(*   the routes execute, analyze and get_report of main.py                 *)
(*                                                                         *)
(* Python values: a dict is a function whose DOMAIN is the keys present, a *)
(* str that is read by character is a tuple of one-character strings.      *)
(***************************************************************************)
EXTENDS Integers, Sequences, FiniteSets, TLC

\* ------------------------------------------------------------------ bounds
MaxTests == 3
MaxParallelism == 2
MaxResults == 3

\* ------------------------------------------------------- program constants
DefaultParallelism == 3

\* None where a str may stand as well: a tuple no text of characters equals
None == <<"<None>">>

VARIABLES
    \* OrchestratorAgent.execute_tests
    runId,            \* the run_id argument of the call
    tests,            \* the batch handed to the call
    argParallelism,   \* the parallelism argument of the call
    callPc,           \* "idle" | "gathering" | "returned" | "raised"
    sem,              \* asyncio.Semaphore._value
    waiters,          \* asyncio.Semaphore._waiters (FIFO of task indexes)
    pc,               \* per task of the gather: its position
    taskResult,       \* per task: the RawResult its coroutine returned
    results,          \* what execute_tests returned
    \* AnalyzerAgent.analyze_and_write_report
    anRunId,          \* the run_id argument
    anPc,             \* "idle" | "local" | "refined" | "returned" | "raised"
    rawResults,       \* the results argument
    localTests,       \* analyzed_tests after the local loop
    localSummary,     \* summary after the local count
    analyzedTests,    \* analyzed_tests after the collaborator step
    summary,          \* summary after the collaborator step
    response,         \* what the collaborator call produced
    fs,               \* the files under reports/artifacts: path -> file
    reportFile,       \* the documents under reports/: file name -> document
    anError,          \* the exception the call raised, "" when none
    returned,         \* what the call returned: <<>> before, <<path, report>> after
    \* two calls of analyze_and_write_report on one results list
    callNo,           \* the calls made so far
    inputAtCall,      \* the results as the caller passed them to the first call
    firstReturned,    \* what the first call returned
    \* ExecutorAgent.run / capture_artifacts, by steps
    capRun,           \* the run_id of the batch
    capTests,         \* the tests of the batch
    capPc,            \* per test: the position of its capture
    capFail,          \* per test: the step of the try block that raised, or "none"
    capFiles,         \* artifact path -> the tests that wrote the file
    capOut,           \* per test: what ExecutorAgent.run produced
    \* main.py
    agentsLoaded,     \* whether the agent imports succeeded
    store,            \* the documents under reports/: path -> document
    srvReq,           \* the request handled last
    srvResp,          \* the response to it
    \* safe_filename
    fileName,         \* the name argument of the last call
    safeName          \* what the call returned

execVars == <<runId, tests, argParallelism, callPc, sem, waiters, pc, taskResult, results>>
anVars == <<anRunId, anPc, rawResults, localTests, localSummary, analyzedTests, summary,
            response, fs, reportFile, anError, returned>>
twiceVars == <<callNo, inputAtCall, firstReturned>>
capVars == <<capRun, capTests, capPc, capFail, capFiles, capOut>>
srvVars == <<agentsLoaded, store, srvReq, srvResp>>
nameVars == <<fileName, safeName>>
vars == <<execVars, anVars, twiceVars, capVars, srvVars, nameVars>>

\* ------------------------------------------------------------------- dicts
Has(d, k) == k \in DOMAIN d

\* d.get(k, dflt)
Get(d, k, dflt) == IF Has(d, k) THEN d[k] ELSE dflt

\* d[k] = v
Put(d, k, v) == [x \in DOMAIN d \cup {k} |-> IF x = k THEN v ELSE d[x]]

EmptyDict == [x \in {} |-> {}]

\* ----------------------------------------------------------------- strings
RECURSIVE IsPrefixAt(_, _, _)
IsPrefixAt(needle, hay, at) ==
    /\ at + Len(needle) - 1 <= Len(hay)
    /\ \A k \in 1..Len(needle) : hay[at + k - 1] = needle[k]

\* needle in hay (Python's substring test on str)
Contains(needle, hay) ==
    \E at \in 1..(Len(hay) + 1) : IsPrefixAt(needle, hay, at)

\* --------------------------------------------------- artifact_capture.py
Lower == {"a","b","c","d","e","f","g","h","i","j","k","l","m",
          "n","o","p","q","r","s","t","u","v","w","x","y","z"}
Upper == {"A","B","C","D","E","F","G","H","I","J","K","L","M",
          "N","O","P","Q","R","S","T","U","V","W","X","Y","Z"}
Digits == {"0","1","2","3","4","5","6","7","8","9"}
\* letters and digits outside ASCII, for which str.isalnum() is true as well
UnicodeAlnum == {"e-acute", "sharp-s", "arabic-3"}

IsAlnum(c) == c \in Lower \cup Upper \cup Digits \cup UnicodeAlnum

safe_filename(name) ==
    [k \in 1..Len(name) |->
        IF IsAlnum(name[k]) \/ name[k] \in {"-", "_"} THEN name[k] ELSE "_"]

ScreenshotSuffix == "_screenshot.png"
DomSuffix == "_dom.html"
LogsSuffix == "_logs.txt"

\* f"{prefix}{suffix}" with prefix = os.path.join("reports", "artifacts",
\* run_id, safe_name): the directory, the sanitized name, the suffix
ArtifactPath(run, name, suffix) ==
    [dir |-> <<"reports", "artifacts", run>>, stem |-> safe_filename(name),
     suffix |-> suffix]

\* Where a capture can fail. ensure_dir, launch (sync_playwright, launch,
\* new_page) and close (browser.close() in the finally) are outside the try.
CaptureFailPoints ==
    {"none", "ensure_dir", "launch", "goto", "screenshot", "dom", "logs", "close"}

\* capture_artifacts(url, run_id, test_name) failing at `fail`:
\* [raised, artifacts]; artifacts is the returned dict when it did not raise.
capture_artifacts(url, run, name, fail) ==
    LET shot == Put(EmptyDict, "screenshot", ArtifactPath(run, name, ScreenshotSuffix))
        dom  == Put(shot, "dom_snapshot", ArtifactPath(run, name, DomSuffix))
        logs == Put(dom, "logs", ArtifactPath(run, name, LogsSuffix))
        err(a) == Put(a, "error", <<"e","r","r">>)
    IN  CASE fail \in {"ensure_dir", "launch", "close"} ->
                [raised |-> TRUE, artifacts |-> EmptyDict]
          [] fail \in {"goto", "screenshot"} ->
                [raised |-> FALSE, artifacts |-> err(EmptyDict)]
          [] fail = "dom" -> [raised |-> FALSE, artifacts |-> err(shot)]
          [] fail = "logs" -> [raised |-> FALSE, artifacts |-> err(dom)]
          [] OTHER -> [raised |-> FALSE, artifacts |-> logs]

\* ------------------------------------------------------ executor_agent.py
UnknownId == <<"u","n","k","n","o","w","n">>
DefaultUrl == "http://localhost:8000"

TestId(test) == Get(test, "id", UnknownId)
TestName(test) == Get(test, "name", <<"t","e","s","t","_">> \o TestId(test))
TargetUrl(test) == Get(test, "target_url", DefaultUrl)

\* the result dict ExecutorAgent.run builds from the captured artifacts
RawResult(test, artifacts) ==
    [test_id |-> TestId(test),
     name |-> TestName(test),
     status |-> IF ~Has(artifacts, "error") THEN "completed" ELSE "failed",
     verdict |-> "pending",
     artifacts |-> artifacts]

\* ExecutorAgent.run: [raised, result]; an exception of the capture is not caught
ExecutorRun(test, run, fail) ==
    LET cap == capture_artifacts(TargetUrl(test), run, TestName(test), fail)
    IN  IF cap.raised THEN [raised |-> TRUE, result |-> EmptyDict]
        ELSE [raised |-> FALSE, result |-> RawResult(test, cap.artifacts)]

\* -------------------------------------------------- orchestrator_agent.py
\* sequences over S of length at most n
SeqsUpTo(S, n) == UNION {[1..k -> S] : k \in 0..n}

TestIds == {<<"a">>, <<"b">>}
\* the test dicts of a request: with an id, or without one
TestCases == {[id |-> t] : t \in TestIds} \cup {[expected_result |-> "N/A"]}
Batches == SeqsUpTo(TestCases, MaxTests)
\* parallelism: Optional[int], an int n as {n} and None as {}
NoInt == {}
Int1(n) == {n}
IntOf(p) == CHOOSE n \in p : TRUE
ParallelismArgs == {NoInt} \cup {Int1(n) : n \in -1 .. MaxParallelism}
RunIds == {"run_1"}
\* the outcomes of a capture that ExecutorAgent.run tells apart
ExecFailPoints == {"none", "goto", "launch"}

Tasks == DOMAIN pc
\* a task inside `async with sem`: it holds a permit
Active(i) == pc[i] \in {"granted", "capturing"}
Finished(i) == pc[i] \in {"done", "raised"}
ActiveCount == Cardinality({i \in Tasks : Active(i)})

\* parallelism or self.parallelism: None and 0 are falsy
EffectiveParallelism(p) ==
    IF p = NoInt \/ p = Int1(0) THEN DefaultParallelism ELSE IntOf(p)

\* execute_tests up to the await of gather: the semaphore is built (a negative
\* value raises ValueError) and gather makes one task per test
ExecuteTests(run, ts, p) ==
    /\ callPc = "idle"
    /\ runId' = run
    /\ tests' = ts
    /\ argParallelism' = p
    /\ IF EffectiveParallelism(p) < 0
       THEN /\ callPc' = "raised"
            /\ UNCHANGED <<sem, pc>>
       ELSE /\ sem' = EffectiveParallelism(p)
            /\ pc' = [i \in 1..Len(ts) |-> "created"]
            /\ callPc' = "gathering"
    /\ UNCHANGED <<waiters, taskResult, results, anVars, twiceVars, capVars, srvVars, nameVars>>

\* Release as it would be if release() raised the value and woke no waiter
ReleaseWithoutWake == [sem |-> sem + 1, waiters |-> waiters, woken |-> {}]

\* Semaphore.release(): the value goes up, and the first waiter, if any, takes
\* it at once. The new <<sem, waiters, woken>>, woken a set of at most one task.
Release ==
    IF waiters = <<>>
    THEN [sem |-> sem + 1, waiters |-> waiters, woken |-> {}]
    ELSE [sem |-> sem, waiters |-> Tail(waiters), woken |-> {Head(waiters)}]

\* TaskStart as it would be without `async with sem`: the executor runs at once
TaskStartUnbounded(i) ==
    /\ callPc # "idle"
    /\ i \in Tasks /\ pc[i] = "created"
    /\ \A j \in Tasks : j < i => pc[j] # "created"
    /\ pc' = [pc EXCEPT ![i] = "capturing"]
    /\ UNCHANGED <<runId, tests, argParallelism, callPc, sem, waiters, taskResult,
                   results, anVars, twiceVars, capVars, srvVars, nameVars>>

\* _bounded_exec starts (tasks start in the order gather made them): it takes
\* a permit and runs the executor up to the await of the capture, or waits
TaskStart(i) ==
    /\ callPc # "idle"
    /\ i \in Tasks /\ pc[i] = "created"
    /\ \A j \in Tasks : j < i => pc[j] # "created"
    /\ IF sem > 0 /\ waiters = <<>>
       THEN /\ sem' = sem - 1
            /\ pc' = [pc EXCEPT ![i] = "capturing"]
            /\ UNCHANGED waiters
       ELSE /\ waiters' = Append(waiters, i)
            /\ pc' = [pc EXCEPT ![i] = "waiting"]
            /\ UNCHANGED sem
    /\ UNCHANGED <<runId, tests, argParallelism, callPc, taskResult, results, anVars, twiceVars, capVars, srvVars, nameVars>>

\* a waiter that was handed a permit resumes and runs the executor up to the
\* await of the capture
WaiterResume(i) ==
    /\ i \in Tasks /\ pc[i] = "granted"
    /\ pc' = [pc EXCEPT ![i] = "capturing"]
    /\ UNCHANGED <<runId, tests, argParallelism, callPc, sem, waiters, taskResult,
                   results, anVars, twiceVars, capVars, srvVars, nameVars>>

\* the capture of task i ends (failing at `fail`): ExecutorAgent.run returns
\* its result or raises, and `async with sem` releases the permit either way.
\* The loop runs the first step of every task gather made before it handles
\* the completion of a capture thread.
CaptureDone(i, fail) ==
    /\ i \in Tasks /\ pc[i] = "capturing"
    /\ \A j \in Tasks : pc[j] # "created"
    /\ LET out == ExecutorRun(tests[i], runId, fail)
           rel == Release
       IN  /\ sem' = rel.sem
           /\ waiters' = rel.waiters
           /\ pc' = [j \in Tasks |->
                       IF j = i THEN (IF out.raised THEN "raised" ELSE "done")
                       ELSE IF j \in rel.woken THEN "granted" ELSE pc[j]]
           /\ taskResult' = IF out.raised THEN taskResult
                            ELSE Put(taskResult, i, out.result)
    /\ UNCHANGED <<runId, tests, argParallelism, callPc, results, anVars, twiceVars, capVars, srvVars, nameVars>>

\* gather (return_exceptions=False): the first exception of a task is raised
\* into execute_tests at once; the other tasks are not cancelled
GatherRaise ==
    /\ callPc = "gathering"
    /\ \E i \in Tasks : pc[i] = "raised"
    /\ callPc' = "raised"
    /\ UNCHANGED <<runId, tests, argParallelism, sem, waiters, pc, taskResult,
                   results, anVars, twiceVars, capVars, srvVars, nameVars>>

\* GatherReturn as it would be if it waited for the first task only
\* (asyncio.wait with FIRST_COMPLETED): the results of the tasks done by then
GatherReturnFirstCompleted ==
    /\ callPc = "gathering"
    /\ \/ Tasks = {}
       \/ \E i \in Tasks : pc[i] = "done"
    /\ LET done == SelectSeq([i \in 1..Len(tests) |-> i], LAMBDA i : pc[i] = "done")
       IN  results' = [k \in 1..Len(done) |-> taskResult[done[k]]]
    /\ callPc' = "returned"
    /\ UNCHANGED <<runId, tests, argParallelism, sem, waiters, pc, taskResult, anVars, twiceVars, capVars, srvVars, nameVars>>

\* GatherReturn as it would be if the results were collected from the last
\* task made to the first
GatherReturnReversed ==
    /\ callPc = "gathering"
    /\ \A i \in Tasks : pc[i] = "done"
    /\ results' = [i \in 1..Len(tests) |-> taskResult[Len(tests) + 1 - i]]
    /\ callPc' = "returned"
    /\ UNCHANGED <<runId, tests, argParallelism, sem, waiters, pc, taskResult, anVars, twiceVars, capVars, srvVars, nameVars>>

\* gather: every task returned; the results come in the order of the tests
GatherReturn ==
    /\ callPc = "gathering"
    /\ \A i \in Tasks : pc[i] = "done"
    /\ results' = [i \in 1..Len(tests) |-> taskResult[i]]
    /\ callPc' = "returned"
    /\ UNCHANGED <<runId, tests, argParallelism, sem, waiters, pc, taskResult, anVars, twiceVars, capVars, srvVars, nameVars>>

InitExec ==
    /\ runId = "" /\ tests = <<>> /\ argParallelism = NoInt
    /\ callPc = "idle" /\ sem = 0 /\ waiters = <<>>
    /\ pc = <<>> /\ taskResult = EmptyDict /\ results = <<>>

InitAn ==
    /\ anRunId = "" /\ anPc = "idle" /\ rawResults = <<>> /\ localTests = <<>>
    /\ localSummary = EmptyDict /\ analyzedTests = <<>> /\ summary = EmptyDict
    /\ response = EmptyDict /\ fs = EmptyDict /\ reportFile = EmptyDict
    /\ anError = "" /\ returned = <<>>

InitTwice == callNo = 0 /\ inputAtCall = <<>> /\ firstReturned = <<>>

InitCap ==
    /\ capRun = "" /\ capTests = <<>> /\ capPc = <<>> /\ capFail = <<>>
    /\ capFiles = EmptyDict /\ capOut = EmptyDict

InitSrv ==
    /\ agentsLoaded = "importing" /\ store = EmptyDict
    /\ srvReq = EmptyDict /\ srvResp = EmptyDict

InitName == fileName = <<>> /\ safeName = <<>>

Init == InitExec /\ InitAn /\ InitTwice /\ InitCap /\ InitSrv /\ InitName

NextExec ==
    \/ /\ callPc = "idle"
       /\ \E run \in RunIds, ts \in Batches, p \in ParallelismArgs :
              ExecuteTests(run, ts, p)
    \/ \E i \in Tasks : TaskStart(i)
    \/ \E i \in Tasks : WaiterResume(i)
    \/ \E i \in Tasks, fail \in ExecFailPoints : CaptureDone(i, fail)
    \/ GatherRaise
    \/ GatherReturn

\* one call of execute_tests and the tasks it made
SpecExec == Init /\ [][NextExec]_vars

\* What the permit pool can tell apart: how many tests the batch has, and
\* whether an executor returns or raises.
LiveBatches == SeqsUpTo({[id |-> <<"a">>]}, MaxTests)
LiveFailPoints == {"none", "launch"}

NextLive ==
    \/ /\ callPc = "idle"
       /\ \E run \in RunIds, ts \in LiveBatches, p \in ParallelismArgs :
              ExecuteTests(run, ts, p)
    \/ \E i \in Tasks : TaskStart(i)
    \/ \E i \in Tasks : WaiterResume(i)
    \/ \E i \in Tasks, fail \in LiveFailPoints : CaptureDone(i, fail)
    \/ GatherRaise
    \/ GatherReturn

\* The event loop runs every task that is ready (a task gather made, a waiter
\* that was handed a permit, the gather itself), and every capture running in
\* the thread pool ends; the tasks go on when execute_tests has raised.
FairExec ==
    /\ WF_vars(\E i \in Tasks : TaskStart(i))
    /\ WF_vars(\E i \in Tasks : WaiterResume(i))
    /\ WF_vars(\E i \in Tasks, fail \in LiveFailPoints : CaptureDone(i, fail))
    /\ WF_vars(GatherRaise)
    /\ WF_vars(GatherReturn)

\* one call of execute_tests under fair scheduling
SpecExecFair == Init /\ [][NextLive]_vars /\ FairExec

\* ------------------------------------------------------ analyzer_agent.py
LowerSeq == <<"a","b","c","d","e","f","g","h","i","j","k","l","m",
              "n","o","p","q","r","s","t","u","v","w","x","y","z">>
UpperSeq == <<"A","B","C","D","E","F","G","H","I","J","K","L","M",
              "N","O","P","Q","R","S","T","U","V","W","X","Y","Z">>

\* str.upper() of one character: a text, since the sharp s becomes "SS"
CharUpper(c) ==
    IF \E k \in 1..Len(LowerSeq) : LowerSeq[k] = c
    THEN <<UpperSeq[CHOOSE k \in 1..Len(LowerSeq) : LowerSeq[k] = c]>>
    ELSE IF c = "sharp-s" THEN <<"S", "S">>
    ELSE IF c = "e-acute" THEN <<"E-acute">>
    ELSE <<c>>

RECURSIVE StrUpper(_)
\* content.upper()
StrUpper(text) ==
    IF text = <<>> THEN <<>> ELSE CharUpper(Head(text)) \o StrUpper(Tail(text))

ErrorToken == <<"E","R","R","O","R">>

\* HasErrorToken as it would be without .upper(): a case-sensitive test
HasErrorTokenCaseSensitive(content) == Contains(ErrorToken, content)

\* "ERROR" in content.upper()
HasErrorToken(content) == Contains(ErrorToken, StrUpper(content))

\* a file of fs: readable with its content, or one that open()/read() fails on
ReadableFile(content) == [readable |-> TRUE, content |-> content]
UnreadableFile == [readable |-> FALSE, content |-> <<>>]

\* the verdict of one result: [raised, verdict]
ResolveVerdict(r, files) ==
    LET artifacts == Get(r, "artifacts", EmptyDict)
        verdict == Get(r, "verdict", "pending")
    IN  IF verdict # "pending" THEN [raised |-> FALSE, verdict |-> verdict]
        ELSE IF Has(artifacts, "logs") /\ Has(files, artifacts["logs"])
        THEN IF ~files[artifacts["logs"]].readable
             THEN [raised |-> TRUE, verdict |-> verdict]
             ELSE [raised |-> FALSE,
                   verdict |-> IF HasErrorToken(files[artifacts["logs"]].content)
                               THEN "failed" ELSE "passed"]
        ELSE [raised |-> FALSE, verdict |-> "failed"]

\* str(test_id) in f"test_{test_id}"
StrOf(id) == IF id = None THEN <<"N","o","n","e">> ELSE id

\* the dict the local loop appends for result r
AnalyzeOne(r, files) ==
    LET test_id == Get(r, "test_id", None)
        verdict == ResolveVerdict(r, files).verdict
    IN  [test_id |-> test_id,
         name |-> Get(r, "name", <<"t","e","s","t","_">> \o StrOf(test_id)),
         verdict |-> verdict,
         artifacts |-> Get(r, "artifacts", EmptyDict),
         target_url |-> Get(Get(r, "artifacts", EmptyDict), "url", "play.ezygamers.com"),
         reproducibility |-> [repeats |-> 1, stable |-> (verdict = "passed")],
         notes |-> IF verdict = "passed" THEN "Execution completed successfully."
                   ELSE IF verdict = "failed" THEN "Execution failed: see artifacts."
                   ELSE "Execution completed, verdict pending."]

\* the local loop over results: [raised, tests]
LocalAnalysis(rs, files) ==
    IF \E i \in 1..Len(rs) : ResolveVerdict(rs[i], files).raised
    THEN [raised |-> TRUE, tests |-> <<>>]
    ELSE [raised |-> FALSE, tests |-> [i \in 1..Len(rs) |-> AnalyzeOne(rs[i], files)]]

CountVerdict(ts, v) == Cardinality({i \in 1..Len(ts) : ts[i].verdict = v})

\* the summary of the local loop's tests
Summarize(ts) ==
    [total |-> Len(ts), passed |-> CountVerdict(ts, "passed"),
     failed |-> CountVerdict(ts, "failed"), flaky |-> 0]

\* JSON values and the Python values they load to
JList(items) == [type |-> "list", items |-> items]
JDict(d) == [type |-> "dict", dict |-> d]
JNumber == [type |-> "number"]
JString == [type |-> "string"]

\* What the collaborator may answer about the local tests lt: the call raises
\* (or times out), the text is not JSON, or the text is JSON: an array, or an
\* object with or without "tests" and "summary", each well-formed or not.
CollabTests(lt) ==
    {JList([i \in 1..Len(lt) |-> [lt[i] EXCEPT !.verdict = "flaky"]]),
     JList(<<>>),
     JList(<<[verdict |-> "passed"]>>),
     JNumber}
CollabSummaries ==
    {JDict([total |-> 0, passed |-> 0, failed |-> 0, flaky |-> 0]), JString}
CollabDicts(lt) ==
    {t @@ sm : t \in {EmptyDict} \cup {[tests |-> x] : x \in CollabTests(lt)},
               sm \in {EmptyDict} \cup {[summary |-> y] : y \in CollabSummaries}}
CollabResponses(lt) ==
    {[kind |-> "error"], [kind |-> "text"]}
        \cup {[kind |-> "json", body |-> b] :
                b \in {JList(<<>>)} \cup {JDict(d) : d \in CollabDicts(lt)}}

\* the try block: the response is adopted when it is a dict with "tests";
\* an exception of the call or of json.loads is caught. [tests, summary]
Refine(lt, ls, resp) ==
    IF resp.kind = "json" /\ resp.body.type = "dict" /\ Has(resp.body.dict, "tests")
    THEN [tests |-> resp.body.dict["tests"],
          summary |-> Get(resp.body.dict, "summary", JDict(ls))]
    ELSE [tests |-> JList(lt), summary |-> JDict(ls)]

\* {t["test_id"]: t["artifacts"] for t in analyzed_tests}: the exception it
\* raises, "" when none
ArtifactsMapError(ts) ==
    IF ts.type # "list" THEN "TypeError"
    ELSE IF \E i \in 1..Len(ts.items) :
                ~Has(ts.items[i], "test_id") \/ ~Has(ts.items[i], "artifacts")
    THEN "KeyError"
    ELSE ""

\* the dict of the comprehension: a later test replaces an earlier one of its id
ArtifactsMap(items) ==
    [id \in {items[i].test_id : i \in 1..Len(items)} |->
        items[CHOOSE i \in 1..Len(items) :
                /\ items[i].test_id = id
                /\ \A j \in 1..Len(items) : items[j].test_id = id => j <= i].artifacts]

\* summary["total"], summary["passed"], summary["failed"] of the closing log
\* call: the exception it raises, "" when none
SummaryLogError(sm) ==
    IF sm.type # "dict" THEN "TypeError"
    ELSE IF {"total", "passed", "failed"} \subseteq DOMAIN sm.dict THEN ""
    ELSE "KeyError"

\* --------------------------------------------------- report_generator.py
ReportPath(run) == [dir |-> "reports", file |-> <<run, "_report.json">>]

\* json.dump writes a dict key None as "null"
JsonKey(k) == IF k = None THEN <<"n","u","l","l">> ELSE k

JsonObject(d) ==
    [k \in {JsonKey(x) : x \in DOMAIN d} |->
        d[CHOOSE x \in DOMAIN d : JsonKey(x) = k]]

CountStatus(items, v) ==
    Cardinality({i \in 1..Len(items) : Get(items[i], "status", "") = v})

\* the document generate_report writes under <run_id>_report.json
generate_report(run, test_results, artifacts, notes) ==
    [run_id |-> run,
     timestamp |-> "utcnow",
     summary |-> [total_tests |-> Len(test_results),
                  passed |-> CountStatus(test_results, "passed"),
                  failed |-> CountStatus(test_results, "failed")],
     results |-> test_results,
     artifacts |-> JsonObject(artifacts),
     notes |-> notes]

\* ------------------------------------- analyze_and_write_report, by steps
\* The cases a RawResult of the request is drawn from: a pending verdict with
\* each state of its log, a verdict that is not pending, a missing test_id.
LogContents ==
    {<<>>,
     <<"E","R","R","O","R",":"," ","t","i","m","e","o","u","t">>,
     <<"x","e","r","R","o","r">>,
     <<"E","R","R","O">>}
LogCases ==
    {[kind |-> k, content |-> <<>>] : k \in {"nokey", "nofile", "unreadable"}}
        \cup {[kind |-> "file", content |-> c] : c \in LogContents}
ForeignVerdicts == {"unknown"}
NoLogs == [kind |-> "nokey", content |-> <<>>]
RawResultCases ==
    {[hasId |-> TRUE, verdict |-> "pending", log |-> l] : l \in LogCases}
        \cup {[hasId |-> TRUE, verdict |-> v, log |-> NoLogs] : v \in ForeignVerdicts}
        \cup {[hasId |-> FALSE, verdict |-> "pending", log |-> NoLogs]}

\* the id and the name of the i-th test of a run
IdAt(i) == <<"t", <<"1","2","3","4","5","6","7","8","9">>[i]>>
NameAt(i) == <<"t","e","s","t","_">> \o IdAt(i)

\* the i-th RawResult of the request, of case c
RawOf(run, c, i) ==
    LET ids == IF c.hasId THEN [test_id |-> IdAt(i), name |-> NameAt(i)] ELSE EmptyDict
        artifacts == IF c.log.kind = "nokey"
                     THEN capture_artifacts(DefaultUrl, run, NameAt(i), "goto").artifacts
                     ELSE capture_artifacts(DefaultUrl, run, NameAt(i), "none").artifacts
    IN  ids @@ [status |-> IF c.log.kind = "nokey" THEN "failed" ELSE "completed",
                verdict |-> c.verdict,
                artifacts |-> artifacts]

\* the log files the cases leave on disk
FilesOf(run, cases) ==
    LET on == {i \in 1..Len(cases) : cases[i].log.kind \in {"unreadable", "file"}}
        at(i) == ArtifactPath(run, NameAt(i), LogsSuffix)
    IN  [path \in {at(i) : i \in on} |->
            LET i == CHOOSE k \in on : at(k) = path
            IN  IF cases[i].log.kind = "file" THEN ReadableFile(cases[i].log.content)
                ELSE UnreadableFile]

\* the local loop and the summary (an exception of open() or read() leaves
\* the call)
Analyze(run, cases) ==
    /\ anPc = "idle"
    /\ anRunId' = run
    /\ rawResults' = [i \in 1..Len(cases) |-> RawOf(run, cases[i], i)]
    /\ fs' = FilesOf(run, cases)
    /\ callNo' = callNo + 1
    /\ inputAtCall' = rawResults'
    /\ LET loc == LocalAnalysis(rawResults', fs')
       IN  IF loc.raised
           THEN /\ anPc' = "raised"
                /\ anError' = "OSError"
                /\ UNCHANGED <<localTests, localSummary, analyzedTests, summary>>
           ELSE /\ anPc' = "local"
                /\ localTests' = loc.tests
                /\ localSummary' = Summarize(loc.tests)
                /\ analyzedTests' = JList(loc.tests)
                /\ summary' = JDict(Summarize(loc.tests))
                /\ UNCHANGED anError
    /\ UNCHANGED <<response, reportFile, returned, firstReturned, execVars, capVars,
                   srvVars, nameVars>>

\* the try block with a collaborator that answers resp
Collaborate(resp) ==
    /\ anPc = "local"
    /\ localTests # <<>>
    /\ response' = resp
    /\ LET ref == Refine(localTests, localSummary, resp)
       IN  /\ analyzedTests' = ref.tests
           /\ summary' = ref.summary
    /\ anPc' = "refined"
    /\ UNCHANGED <<anRunId, rawResults, localTests, localSummary, fs, reportFile,
                   anError, returned, execVars, twiceVars, capVars, srvVars, nameVars>>

\* `if analyzed_tests:` is false: the collaborator is not called
SkipCollaborator ==
    /\ anPc = "local"
    /\ localTests = <<>>
    /\ anPc' = "refined"
    /\ UNCHANGED <<anRunId, rawResults, localTests, localSummary, analyzedTests,
                   summary, response, fs, reportFile, anError, returned, execVars, twiceVars, capVars, srvVars, nameVars>>

\* the artifacts map, generate_report, the closing log call and the return
SaveReport ==
    /\ anPc = "refined"
    /\ IF ArtifactsMapError(analyzedTests) # ""
       THEN /\ anPc' = "raised"
            /\ anError' = ArtifactsMapError(analyzedTests)
            /\ UNCHANGED <<reportFile, returned>>
       ELSE /\ reportFile' = Put(reportFile, ReportPath(anRunId),
                                 generate_report(anRunId, analyzedTests.items,
                                                 ArtifactsMap(analyzedTests.items),
                                                 "Generated by AnalyzerAgent"))
            /\ IF SummaryLogError(summary) # ""
               THEN /\ anPc' = "raised"
                    /\ anError' = SummaryLogError(summary)
                    /\ UNCHANGED returned
               ELSE /\ anPc' = "returned"
                    /\ returned' = <<ReportPath(anRunId),
                                     [summary |-> summary, tests |-> analyzedTests]>>
                    /\ UNCHANGED anError
    /\ UNCHANGED <<anRunId, rawResults, localTests, localSummary, analyzedTests,
                   summary, response, fs, execVars, twiceVars, capVars, srvVars, nameVars>>

NextAn ==
    \/ /\ anPc = "idle"
       /\ \E run \in RunIds, cases \in SeqsUpTo(RawResultCases, MaxResults) :
              Analyze(run, cases)
    \/ /\ anPc = "local"
       /\ \E resp \in CollabResponses(localTests) : Collaborate(resp)
    \/ SkipCollaborator
    \/ SaveReport

\* one call of analyze_and_write_report on a constructed AnalyzerAgent (one
\* whose api_key is set, as its constructor demands)
SpecAn == Init /\ [][NextAn]_vars

\* ------------------------- analyze_and_write_report, twice on one input
\* the answers of a collaborator that is off: its call raises (no key, no
\* network, a timeout) or its text is not JSON
CollabFailures == {[kind |-> "error"], [kind |-> "text"]}

\* AnalyzeAgain as it would be if analyzed_tests were kept on the agent
\* between calls: the second loop appends to the list of the first
AnalyzeAgainAccumulating ==
    /\ anPc = "returned" /\ callNo = 1
    /\ callNo' = 2
    /\ firstReturned' = returned
    /\ LET loc == LocalAnalysis(rawResults, fs)
           all == localTests \o loc.tests
       IN  /\ anPc' = "local"
           /\ localTests' = all
           /\ localSummary' = Summarize(all)
           /\ analyzedTests' = JList(all)
           /\ summary' = JDict(Summarize(all))
    /\ response' = EmptyDict
    /\ returned' = <<>>
    /\ UNCHANGED <<anRunId, rawResults, fs, reportFile, anError, inputAtCall,
                   execVars, capVars, srvVars, nameVars>>

\* the caller passes the same results list and run_id to a second call, the
\* files under reports/artifacts being as they were: the local loop and the
\* summary of that call
AnalyzeAgain ==
    /\ anPc = "returned" /\ callNo = 1
    /\ callNo' = 2
    /\ firstReturned' = returned
    /\ LET loc == LocalAnalysis(rawResults, fs)
       IN  IF loc.raised
           THEN /\ anPc' = "raised"
                /\ anError' = "OSError"
                /\ UNCHANGED <<localTests, localSummary, analyzedTests, summary>>
           ELSE /\ anPc' = "local"
                /\ localTests' = loc.tests
                /\ localSummary' = Summarize(loc.tests)
                /\ analyzedTests' = JList(loc.tests)
                /\ summary' = JDict(Summarize(loc.tests))
                /\ UNCHANGED anError
    /\ response' = EmptyDict
    /\ returned' = <<>>
    /\ UNCHANGED <<anRunId, rawResults, fs, reportFile, inputAtCall, execVars,
                   capVars, srvVars, nameVars>>

NextTwice ==
    \/ /\ anPc = "idle"
       /\ \E run \in RunIds, cases \in SeqsUpTo(RawResultCases, MaxResults) :
              Analyze(run, cases)
    \/ /\ anPc = "local"
       /\ \E resp \in CollabFailures : Collaborate(resp)
    \/ SkipCollaborator
    \/ SaveReport
    \/ AnalyzeAgain

\* two calls of analyze_and_write_report on the same results, the
\* collaborator off
SpecTwice == Init /\ [][NextTwice]_vars

\* ------------------------------------------------------------------ main.py
MaxSrvTests == 1

\* f"run_{os.urandom(4).hex()}": the ids execute may draw
GeneratedRunIds == {"run_1", "run_2"}
\* the run_id of an analyze or report request: any string of the caller
RequestRunIds == GeneratedRunIds \cup {"run_x"}

SrvTestCases == {[id |-> <<"a">>], [expected_result |-> "N/A"]}
SrvBatches == SeqsUpTo(SrvTestCases, MaxSrvTests)
SrvParallelism == {NoInt, Int1(-1)}

RawPath(run) == [dir |-> "reports", file |-> <<run, "_raw.json">>]

Ok(body) == [status |-> 200, body |-> body]
HttpError(code, detail) == [status |-> code, detail |-> detail]

\* the result execute makes up for test t when no OrchestratorAgent is loaded
PlaceholderResult(t) ==
    [test_id |-> Get(t, "id", None),
     status |-> "completed",
     verdict |-> "unknown",
     artifacts |-> [screenshots |-> <<>>, dom_snapshot |-> None,
                    console_logs |-> <<>>, network_log |-> None]]

\* OrchestratorAgent().execute_tests(run_id, tests, parallelism) as execute
\* sees it, the capture of test i failing at fails[i]: [raised, results]
ExecuteTestsOutcome(run, ts, p, fails) ==
    IF \/ EffectiveParallelism(p) < 0
       \/ \E i \in 1..Len(ts) : ExecutorRun(ts[i], run, fails[i]).raised
    THEN [raised |-> TRUE, results |-> <<>>]
    ELSE [raised |-> FALSE,
          results |-> [i \in 1..Len(ts) |-> ExecutorRun(ts[i], run, fails[i]).result]]

\* the report analyze makes up when no AnalyzerAgent is loaded
PlaceholderReport(run, rs) ==
    [run_id |-> run,
     summary |-> [total |-> Len(rs), passed |-> 0, failed |-> 0, flaky |-> Len(rs)],
     tests |-> [i \in 1..Len(rs) |->
                  [test_id |-> Get(rs[i], "test_id", None),
                   verdict |-> "flaky",
                   artifacts |-> Get(rs[i], "artifacts", EmptyDict),
                   notes |-> "Placeholder analysis. Implement AnalyzerAgent for real validation."]]]

\* the results of an analyze request
AnalyzeInputs == {<<>>, <<PlaceholderResult([id |-> <<"a">>])>>}

\* the agent imports at module start: all four succeed, or all are None
ImportAgents(ok) ==
    /\ agentsLoaded = "importing"
    /\ agentsLoaded' = IF ok THEN "loaded" ELSE "none"
    /\ UNCHANGED <<store, srvReq, srvResp, execVars, anVars, twiceVars, capVars, nameVars>>

\* POST /execute
execute(run, ts, p, fails) ==
    /\ agentsLoaded # "importing"
    /\ srvReq' = [op |-> "execute", run_id |-> run]
    /\ LET out == IF agentsLoaded = "none"
                  THEN [raised |-> FALSE,
                        results |-> [i \in 1..Len(ts) |-> PlaceholderResult(ts[i])]]
                  ELSE ExecuteTestsOutcome(run, ts, p, fails)
       IN  IF out.raised
           THEN /\ srvResp' = HttpError(500, "OrchestratorAgent failed")
                /\ UNCHANGED store
           ELSE /\ store' = Put(store, RawPath(run), JList(out.results))
                /\ srvResp' = Ok([run_id |-> run, results |-> out.results])
    /\ UNCHANGED <<agentsLoaded, execVars, anVars, twiceVars, capVars, nameVars>>

\* POST /analyze. AnalyzerAgent() raises RuntimeError: __init__ sets api_key
\* to "" and raises when it is empty.
analyze(run, rs) ==
    /\ agentsLoaded # "importing"
    /\ srvReq' = [op |-> "analyze", run_id |-> run]
    /\ IF agentsLoaded = "none"
       THEN /\ store' = Put(store, ReportPath(run), PlaceholderReport(run, rs))
            /\ srvResp' = Ok([report_path |-> ReportPath(run)])
       ELSE /\ srvResp' = HttpError(500, "OPENAI_API_KEY not found")
            /\ UNCHANGED store
    /\ UNCHANGED <<agentsLoaded, execVars, anVars, twiceVars, capVars, nameVars>>

\* get_report as it would be if it made up an empty report for an unknown run
get_or_create_report(run) ==
    /\ agentsLoaded # "importing"
    /\ srvReq' = [op |-> "get_report", run_id |-> run]
    /\ store' = IF Has(store, ReportPath(run)) THEN store
                ELSE Put(store, ReportPath(run), PlaceholderReport(run, <<>>))
    /\ srvResp' = Ok(store'[ReportPath(run)])
    /\ UNCHANGED <<agentsLoaded, execVars, anVars, twiceVars, capVars, nameVars>>

\* GET /report/{run_id}
get_report(run) ==
    /\ agentsLoaded # "importing"
    /\ srvReq' = [op |-> "get_report", run_id |-> run]
    /\ srvResp' = IF Has(store, ReportPath(run)) THEN Ok(store[ReportPath(run)])
                  ELSE HttpError(404, "Report not found")
    /\ UNCHANGED <<agentsLoaded, store, execVars, anVars, twiceVars, capVars, nameVars>>

NextSrv ==
    \/ \E ok \in BOOLEAN : ImportAgents(ok)
    \/ /\ agentsLoaded # "importing"
       /\ \E run \in GeneratedRunIds, ts \in SrvBatches, p \in SrvParallelism :
              \E fails \in [1..Len(ts) -> ExecFailPoints] : execute(run, ts, p, fails)
    \/ \E run \in RequestRunIds, rs \in AnalyzeInputs : analyze(run, rs)
    \/ \E run \in RequestRunIds : get_report(run)

\* the routes of main.py over the reports directory
SpecSrv == Init /\ [][NextSrv]_vars

\* ------------------- ExecutorAgent.run and capture_artifacts, by steps
MaxCapTests == 2

\* the names of the tests of a batch: two that differ, and no name
CapNames == {<<"a", " ", "b">>, <<"a", "_", "b">>}
\* the i-th test of a batch: its id is its own, its name is any or absent
CapTestsAt(i) == {[id |-> IdAt(i)]} \cup {[id |-> IdAt(i), name |-> n] : n \in CapNames}
CapBatches ==
    UNION {{ts \in [1..k -> UNION {CapTestsAt(i) : i \in 1..k}] :
                \A i \in 1..k : ts[i] \in CapTestsAt(i)} : k \in 0..MaxCapTests}

CapTasks == DOMAIN capPc

\* open(path, "w") or page.screenshot(path=path) by test i
WriteFile(files, path, i) == Put(files, path, Get(files, path, {}) \cup {i})

\* a batch whose executors all hold a permit (parallelism is at least its size)
RunBatch(run, ts) ==
    /\ capRun = ""
    /\ capRun' = run
    /\ capTests' = ts
    /\ capPc' = [i \in 1..Len(ts) |-> "created"]
    /\ capFail' = [i \in 1..Len(ts) |-> "none"]
    /\ UNCHANGED <<capFiles, capOut, execVars, anVars, twiceVars, srvVars, nameVars>>

\* ensure_dir, sync_playwright, launch and new_page: outside the try, so an
\* exception leaves capture_artifacts and ExecutorAgent.run
CaptureStart(i, fail) ==
    /\ i \in CapTasks /\ capPc[i] = "created"
    /\ fail \in {"none", "ensure_dir", "launch"}
    /\ IF fail = "none"
       THEN /\ capPc' = [capPc EXCEPT ![i] = "page"]
            /\ UNCHANGED capOut
       ELSE /\ capPc' = [capPc EXCEPT ![i] = "raised"]
            /\ capOut' = Put(capOut, i, ExecutorRun(capTests[i], capRun, fail))
    /\ UNCHANGED <<capRun, capTests, capFail, capFiles, execVars, anVars, twiceVars,
                   srvVars, nameVars>>

\* the next step of the try block: goto and the screenshot, the DOM snapshot,
\* the log; an exception is caught and ends the block
CaptureStep(i, fail) ==
    /\ i \in CapTasks
    /\ LET name == TestName(capTests[i])
           step(allowed, suffix, next) ==
               /\ fail \in allowed \cup {"none"}
               /\ IF fail = "none"
                  THEN /\ capFiles' = WriteFile(capFiles, ArtifactPath(capRun, name, suffix), i)
                       /\ capPc' = [capPc EXCEPT ![i] = next]
                       /\ UNCHANGED capFail
                  ELSE /\ capFail' = [capFail EXCEPT ![i] = fail]
                       /\ capPc' = [capPc EXCEPT ![i] = "closing"]
                       /\ UNCHANGED capFiles
       IN  \/ capPc[i] = "page" /\ step({"goto", "screenshot"}, ScreenshotSuffix, "shot")
           \/ capPc[i] = "shot" /\ step({"dom"}, DomSuffix, "dom")
           \/ capPc[i] = "dom" /\ step({"logs"}, LogsSuffix, "closing")
    /\ UNCHANGED <<capRun, capTests, capOut, execVars, anVars, twiceVars, srvVars, nameVars>>

\* browser.close() in the finally, then the return of capture_artifacts and
\* the result of ExecutorAgent.run; an exception of close() leaves both
CaptureClose(i, fail) ==
    /\ i \in CapTasks /\ capPc[i] = "closing"
    /\ fail \in {"none", "close"}
    /\ capPc' = [capPc EXCEPT ![i] = IF fail = "none" THEN "done" ELSE "raised"]
    /\ capOut' = Put(capOut, i, ExecutorRun(capTests[i], capRun,
                                            IF fail = "none" THEN capFail[i] ELSE fail))
    /\ UNCHANGED <<capRun, capTests, capFail, capFiles, execVars, anVars, twiceVars,
                   srvVars, nameVars>>

NextCap ==
    \/ /\ capRun = ""
       /\ \E run \in RunIds, ts \in CapBatches : RunBatch(run, ts)
    \/ \E i \in CapTasks, fail \in CaptureFailPoints : CaptureStart(i, fail)
    \/ \E i \in CapTasks, fail \in CaptureFailPoints : CaptureStep(i, fail)
    \/ \E i \in CapTasks, fail \in CaptureFailPoints : CaptureClose(i, fail)

\* the executors of one batch, their captures running side by side
SpecCap == Init /\ [][NextCap]_vars

\* ------------------------------------------------- safe_filename, called
MaxNameLen == 3

\* characters of a test name: ASCII letters and digits, the two kept marks,
\* a path separator, and a letter outside ASCII
NameChars == {"a", "Z", "7", "-", "_", "/", "e-acute"}
FileNames == SeqsUpTo(NameChars, MaxNameLen)

\* safe_name = safe_filename(test_name)
CallSafeFilename(name) ==
    /\ fileName' = name
    /\ safeName' = safe_filename(name)
    /\ UNCHANGED <<execVars, anVars, twiceVars, capVars, srvVars>>

NextName == \E name \in FileNames : CallSafeFilename(name)

\* calls of safe_filename on the names of tests
SpecName == Init /\ [][NextName]_vars

\* ------------------------------------------------- claims on execute_tests
Yielded == callPc \in {"returned", "raised"}
Crashed(i) == pc[i] = "raised"
\* the id a result must carry for a test: its id, or the placeholder
ExpectedId(test) == IF "id" \in DOMAIN test THEN test.id ELSE <<"u","n","k","n","o","w","n">>

\* C1: during a call with parallelism >= 1 the number of executors holding a
\* permit never exceeds parallelism, and a test waits only while every permit
\* is taken.
C1_BoundedConcurrency ==
    (callPc # "idle" /\ argParallelism # NoInt /\ IntOf(argParallelism) >= 1) =>
        /\ ActiveCount <= IntOf(argParallelism)
        /\ (\E i \in Tasks : pc[i] = "waiting") => ActiveCount = IntOf(argParallelism)

\* a permit was released and handed to a waiter while another test still waits
\* and every permit is taken
C1_Witness ==
    /\ argParallelism # NoInt /\ IntOf(argParallelism) >= 1
    /\ ActiveCount = IntOf(argParallelism)
    /\ \E i \in Tasks : Finished(i)
    /\ \E i \in Tasks : pc[i] = "granted"
    /\ \E i \in Tasks : pc[i] = "waiting"

\* C2: when execute_tests returns, the result list has one RawResult per
\* submitted test: as many results as tests, and the set of result test_ids is
\* the set of the tests' ids, the placeholder standing in for a missing id.
C2_OneResultPerTest ==
    callPc = "returned" =>
        /\ Len(results) = Len(tests)
        /\ {results[i].test_id : i \in 1..Len(results)}
               = {ExpectedId(tests[i]) : i \in 1..Len(tests)}

\* a batch of several tests, one without an id and one whose capture reported
\* an error, has returned
C2_Witness ==
    /\ callPc = "returned"
    /\ Len(tests) >= 3
    /\ \E i \in 1..Len(tests) : "id" \notin DOMAIN tests[i]
    /\ \E i \in 1..Len(tests) : "id" \in DOMAIN tests[i]
    /\ \E i \in 1..Len(results) : results[i].status = "failed"

\* C3: when an executor of the batch raises, execute_tests does not fail: it
\* returns a result for every test, and the crashed test's result is failed.
C3_CrashIsolated ==
    ((\E i \in Tasks : Crashed(i)) /\ Yielded) =>
        /\ callPc = "returned"
        /\ Len(results) = Len(tests)
        /\ \A i \in Tasks : Crashed(i) => results[i].status = "failed"

\* C4: a call with parallelism <= 0 is rejected before any executor is
\* scheduled: the call raises, no executor starts, nothing is returned.
C4_NonPositiveRejected ==
    (callPc # "idle" /\ argParallelism # NoInt /\ IntOf(argParallelism) <= 0) =>
        /\ callPc = "raised"
        /\ \A i \in Tasks : pc[i] = "created"
        /\ results = <<>>

\* C5: when execute_tests yields control back, by returning or by raising,
\* every executor of the batch has finished.
C5_RunsToCompletion ==
    Yielded => \A i \in Tasks : Finished(i)

\* ------------------------------------ claims on analyze_and_write_report
Pending(i) == Get(rawResults[i], "verdict", "pending") = "pending"
LogsKey(i) == "logs" \in DOMAIN rawResults[i].artifacts
LogPath(i) == rawResults[i].artifacts["logs"]
\* the log artifact of result i exists and can be read
ReadableLog(i) == LogsKey(i) /\ LogPath(i) \in DOMAIN fs /\ fs[LogPath(i)].readable
\* the log artifact of result i is missing, or exists and cannot be read
MissingOrUnreadableLog(i) == ~ReadableLog(i)
LogContent(i) == fs[LogPath(i)].content

\* the text holds the letters E, R, R, O, R in a row, each in either case
MentionsError(text) ==
    \E at \in 1..Len(text) :
        /\ at + 4 <= Len(text)
        /\ text[at] \in {"E", "e"}
        /\ text[at + 1] \in {"R", "r"}
        /\ text[at + 2] \in {"R", "r"}
        /\ text[at + 3] \in {"O", "o"}
        /\ text[at + 4] \in {"R", "r"}

CollaboratorCalled == "kind" \in DOMAIN response
\* the collaborator was not called, or its call raised or gave no JSON
CollaboratorOff == ~CollaboratorCalled \/ response.kind \in {"error", "text"}
\* the call raised, the text is not JSON, or the JSON has no "tests" key
FallbackResponse ==
    /\ CollaboratorCalled
    /\ \/ response.kind \in {"error", "text"}
       \/ response.body.type # "dict"
       \/ "tests" \notin DOMAIN response.body.dict
\* a {summary, tests} object: a dict of counts and a list of test dicts
WellFormedResponse ==
    /\ CollaboratorCalled
    /\ response.kind = "json"
    /\ response.body.type = "dict"
    /\ {"summary", "tests"} \subseteq DOMAIN response.body.dict
    /\ response.body.dict["summary"].type = "dict"
    /\ response.body.dict["tests"].type = "list"
    /\ \A i \in 1..Len(response.body.dict["tests"].items) :
          {"test_id", "artifacts"} \subseteq DOMAIN response.body.dict["tests"].items[i]

ReturnedTests == returned[2].tests.items
ReturnedSummary == returned[2].summary.dict
Persisted == reportFile[[dir |-> "reports", file |-> <<anRunId, "_report.json">>]]

\* the batch of the example: A's log reads "ERROR: timeout", B has no log
\* artifact, C's log is empty
ExampleABC ==
    /\ Len(rawResults) = 3
    /\ \A i \in 1..3 : Pending(i)
    /\ ReadableLog(1)
    /\ LogContent(1) = <<"E","R","R","O","R",":"," ","t","i","m","e","o","u","t">>
    /\ ~LogsKey(2)
    /\ ReadableLog(3) /\ LogContent(3) = <<>>

\* C6: with the collaborator off, a pending result whose log exists and is
\* readable gets failed exactly when the log holds ERROR in any letter case and
\* passed otherwise; the example batch A, B, C is summarised 3, 1, 2, 0.
C6_LogVerdict ==
    (anPc = "returned" /\ CollaboratorOff) =>
        /\ \A i \in 1..Len(rawResults) :
              (Pending(i) /\ ReadableLog(i)) =>
                  ReturnedTests[i].verdict =
                      IF MentionsError(LogContent(i)) THEN "failed" ELSE "passed"
        /\ ExampleABC =>
              ReturnedSummary = [total |-> 3, passed |-> 1, failed |-> 2, flaky |-> 0]

\* the example batch was analysed with a collaborator whose call raised
C6_Witness ==
    /\ anPc = "returned"
    /\ CollaboratorCalled /\ response.kind = "error"
    /\ ExampleABC

\* C7: a pending result whose log artifact is missing or unreadable does not
\* fail the call, and its verdict is failed.
C7_MissingLogFails ==
    \A i \in 1..Len(rawResults) :
        (Pending(i) /\ MissingOrUnreadableLog(i)) =>
            /\ anError # "OSError"
            /\ localTests[i].verdict = "failed"

\* C8: the returned summary counts add up to its total, which is the number
\* of returned analyzed results.
C8_SummaryInvariant ==
    anPc = "returned" =>
        /\ ReturnedSummary.passed + ReturnedSummary.failed + ReturnedSummary.flaky
               = ReturnedSummary.total
        /\ ReturnedSummary.total = Len(ReturnedTests)

\* C9: after a failed refinement the tests and the summary that the call
\* returns and persists are the locally computed ones.
C9_FallbackKeepsLocal ==
    (anPc = "returned" /\ FallbackResponse) =>
        /\ ReturnedTests = localTests
        /\ ReturnedSummary = localSummary
        /\ Persisted.results = localTests
        /\ Persisted.summary.total_tests = localSummary.total
        /\ Persisted.summary.passed = localSummary.passed
        /\ Persisted.summary.failed = localSummary.failed

\* C10: whatever the collaborator answers, the call completes, writes a report
\* and returns its locator; an answer that is not a well-formed
\* {summary, tests} object changes nothing.
C10_CollaboratorNeverFatal ==
    (CollaboratorCalled /\ anPc \in {"returned", "raised"}) =>
        /\ anPc = "returned"
        /\ [dir |-> "reports", file |-> <<anRunId, "_report.json">>] \in DOMAIN reportFile
        /\ returned[1] = [dir |-> "reports", file |-> <<anRunId, "_report.json">>]
        /\ ~WellFormedResponse =>
              (ReturnedTests = localTests /\ ReturnedSummary = localSummary)

\* the count the persisted summary holds under key k ("total" is written as
\* "total_tests"), -1 when the key is absent
PersistedCount(k) ==
    IF k \in DOMAIN Persisted.summary THEN Persisted.summary[k]
    ELSE IF k = "total" /\ "total_tests" \in DOMAIN Persisted.summary
    THEN Persisted.summary["total_tests"]
    ELSE -1
RawId(i) == Get(rawResults[i], "test_id", None)
LocallyResolved == anPc \in {"local", "refined", "returned"}

\* C11: the report persisted under <run_id>_report.json carries the results
\* and the summary counts (total, passed, failed, flaky) that the call returns.
C11_PersistedMatchesReturned ==
    anPc = "returned" =>
        /\ Persisted.results = ReturnedTests
        /\ \A k \in {"total", "passed", "failed", "flaky"} :
              PersistedCount(k) = Get(ReturnedSummary, k, 0)

\* C12: in a returned report over results that all carry a test_id, every
\* analyzed test_id is the id of an input result, and every input id is
\* carried by exactly one analyzed result.
C12_IdsTraceToInput ==
    (anPc = "returned" /\ \A i \in 1..Len(rawResults) : Has(rawResults[i], "test_id")) =>
        /\ \A j \in 1..Len(ReturnedTests) :
              \E i \in 1..Len(rawResults) : ReturnedTests[j].test_id = RawId(i)
        /\ \A i \in 1..Len(rawResults) :
              Cardinality({j \in 1..Len(ReturnedTests) :
                              ReturnedTests[j].test_id = RawId(i)}) = 1

\* C13: after the local loop every analyzed result has verdict passed or
\* failed, whatever verdict its result came in with, and none carries the
\* note "Execution completed, verdict pending."
C13_LocalVerdictResolved ==
    LocallyResolved =>
        \A i \in 1..Len(localTests) :
            /\ localTests[i].verdict \in {"passed", "failed"}
            /\ localTests[i].notes # "Execution completed, verdict pending."

\* C15: a returned call with the collaborator off gives every result that
\* lacks a test_id an id that is not null, and keeps one analyzed result and
\* one entry of the persisted artifacts map per input result.
C15_MissingIdPlaceholder ==
    (anPc = "returned" /\ CollaboratorOff) =>
        /\ Len(ReturnedTests) = Len(rawResults)
        /\ \A i \in 1..Len(rawResults) :
              ~Has(rawResults[i], "test_id") =>
                  /\ ReturnedTests[i].test_id # None
                  /\ Persisted.results[i].test_id # None
        /\ Cardinality(DOMAIN Persisted.artifacts) = Len(rawResults)

ReportExists(run) == [dir |-> "reports", file |-> <<run, "_report.json">>] \in DOMAIN store

\* C16: a fetch for a run_id that has no report answers 404 "Report not
\* found" and leaves the store as it was, so that no report exists for that
\* run_id afterwards.
C16_FetchMissingIsNotFound ==
    [][\A run \in RequestRunIds :
          (get_report(run) /\ ~ReportExists(run)) =>
              /\ srvResp' = [status |-> 404, detail |-> "Report not found"]
              /\ store' = store
              /\ [dir |-> "reports", file |-> <<run, "_report.json">>] \notin DOMAIN store']_vars

\* a fetch was answered 404 for a run whose raw results are stored, while
\* another run has a report
C16_Witness ==
    /\ "op" \in DOMAIN srvReq /\ srvReq.op = "get_report"
    /\ srvResp.status = 404
    /\ [dir |-> "reports", file |-> <<srvReq.run_id, "_raw.json">>] \in DOMAIN store
    /\ \E run \in RequestRunIds : ReportExists(run)

\* C17: once a report is stored for a run_id, no operation changes the
\* document stored for that run_id.
C17_ReportImmutable ==
    [][\A run \in RequestRunIds :
          ReportExists(run) =>
              /\ [dir |-> "reports", file |-> <<run, "_report.json">>] \in DOMAIN store'
              /\ store'[[dir |-> "reports", file |-> <<run, "_report.json">>]]
                     = store[[dir |-> "reports", file |-> <<run, "_report.json">>]]]_vars

\* ------------------------- claims on ExecutorAgent.run and the capture
CapEnded(i) == capPc[i] \in {"done", "raised"}
CaptureRaised(i) == capPc[i] = "raised"

\* C18: an executor that has ended has produced a RawResult whose verdict is
\* pending and whose status is failed when the capture raised or returned an
\* error key, and completed otherwise.
C18_ExecutorAlwaysYieldsResult ==
    \A i \in CapTasks :
        CapEnded(i) =>
            /\ ~capOut[i].raised
            /\ capOut[i].result.verdict = "pending"
            /\ capOut[i].result.status =
                   IF CaptureRaised(i) \/ "error" \in DOMAIN capOut[i].result.artifacts
                   THEN "failed" ELSE "completed"

\* C19: no artifact file of a run is written by two tests of the batch.
C19_DistinctArtifactFiles ==
    \A path \in DOMAIN capFiles : Cardinality(capFiles[path]) = 1

\* C20: capture_artifacts does not raise, and the mapping it returns after a
\* failure holds the error key only.
C20_CaptureNeverRaises ==
    \A i \in CapTasks :
        /\ ~CaptureRaised(i)
        /\ (capPc[i] = "done" /\ capFail[i] # "none") =>
               DOMAIN capOut[i].result.artifacts = {"error"}

\* ---------------------------------------------- claims on safe_filename
\* the characters of [A-Za-z0-9_-]
PathSafe == Lower \cup Upper \cup Digits \cup {"-", "_"}

\* C21: the sanitized name has the length of the name, keeps every character
\* of [A-Za-z0-9_-], has "_" for every other character, and so consists of
\* characters of [A-Za-z0-9_-] only.
C21_SanitizedName ==
    /\ Len(safeName) = Len(fileName)
    /\ \A k \in 1..Len(fileName) :
          /\ safeName[k] = (IF fileName[k] \in PathSafe THEN fileName[k] ELSE "_")
          /\ safeName[k] \in PathSafe

\* ------------------------------------- more claims on execute_tests
\* C23: when execute_tests returns, results[i] is the RawResult that the
\* executor of tests[i] produced, for every index i.
C23_PositionalAlignment ==
    callPc = "returned" =>
        /\ Len(results) = Len(tests)
        /\ \A i \in 1..Len(tests) :
              /\ results[i] = taskResult[i]
              /\ \E fail \in ExecFailPoints :
                    /\ ~ExecutorRun(tests[i], runId, fail).raised
                    /\ results[i] = ExecutorRun(tests[i], runId, fail).result

\* a batch of three tests of which the first two differ in id and in the
\* outcome of their capture has returned after running one test at a time
C23_Witness ==
    /\ callPc = "returned"
    /\ Len(tests) = 3
    /\ argParallelism = Int1(1)
    /\ TestId(tests[1]) # TestId(tests[2])
    /\ results[1].status # results[2].status

\* a call with parallelism >= 1 is under way or over
BoundedCall == callPc # "idle" /\ argParallelism # NoInt /\ IntOf(argParallelism) >= 1

\* C22: under fair scheduling and ending captures, in a call with
\* parallelism >= 1 every test comes to hold a permit and run, every permit
\* taken is released (also by an executor that raises), and execute_tests
\* ends with all permits back and no test left waiting.
C22_PermitLiveness ==
    /\ BoundedCall ~> (\A i \in Tasks : pc[i] \in {"capturing", "done", "raised"})
    /\ BoundedCall ~> (ActiveCount = 0 /\ sem = EffectiveParallelism(argParallelism))
    /\ BoundedCall ~> (Yielded /\ waiters = <<>> /\ \A i \in Tasks : Finished(i))

\* a call that ran three tests one at a time is over, one of its executors
\* having raised, with the permit back
C22_Witness ==
    /\ Yielded
    /\ argParallelism = Int1(1)
    /\ Len(tests) = 3
    /\ \A i \in Tasks : Finished(i)
    /\ \E i \in Tasks : Crashed(i)
    /\ sem = 1

====
